---- MODULE Spec2Model ----
(***************************************************************************)
(* VibeLedger (src/app.py): a Streamlit script.  Every user interaction    *)
(* re-runs the script top to bottom against the session state              *)
(* (transactions, messages) and the widget values.  One action of the      *)
(* model is one such run: the input section (Log Entry handler), the       *)
(* dashboard section and the advisor section, in that order; an uncaught   *)
(* exception ends the run where it is raised.                              *)
(***************************************************************************)
EXTENDS Integers, Sequences, FiniteSets, TLC

VARIABLES
    text_vibe,        \* widget: st.text_input value, a sequence of characters
    trip_mode,        \* widget: st.toggle value
    uploaded_file,    \* widget: st.file_uploader value: "none", "receipt", "corrupt"
    transactions,     \* st.session_state.transactions
    messages,         \* st.session_state.messages
    event,            \* what triggered the current run: "start", "widget", "log_entry", "chat"
    data,             \* the Log Entry handler's local `data` in the current run
    warning,          \* st.warning("Feed me text or a receipt!") shown in the current run
    ai_error,         \* st.error("AI Error: ...") shown in the current run
    toast,            \* st.toast shown in the current run
    extract_request,  \* the extraction call issued in the current run
    metrics,          \* the three st.metric values and the Subscription Hunter line
    vibe_request,     \* the vibe-check call issued in the current run
    table_shown,      \* the Recent Vibes table was rendered in the current run
    advisor_request,  \* the advisor call issued in the current run
    uncaught          \* the exception that ended the current run, or "none"

widgets == <<text_vibe, trip_mode, uploaded_file>>
session == <<transactions, messages>>
outputs == <<event, data, warning, ai_error, toast, extract_request, metrics,
             vibe_request, table_shown, advisor_request, uncaught>>
vars == <<widgets, session, outputs>>

(***************************************************************************)
(* Bounds of the model.                                                    *)
(***************************************************************************)
MaxLedger == 2        \* ledger length reached under Spec
MaxLongLedger == 11   \* ledger length reached under SpecLong (beyond the vibe tail)
MaxMessages == 3      \* chat transcript length

(***************************************************************************)
(* Python values.                                                          *)
(***************************************************************************)
None == [py |-> "None"]
\* a local or an output the current run never assigned
Unset == [py |-> "unset"]
\* the outcome "the call (or json.loads of its text) raised"
Raised == [py |-> "raise"]

Has(rec, key) == key \in DOMAIN rec

\* transactions[-10:]
VIBE_TAIL == 10

(***************************************************************************)
(* Inputs.  A text is a sequence of characters; "" is the empty sequence.  *)
(***************************************************************************)
TextInputs ==
    { <<>>,
      <<"s", "u", "s", "h", "i">>,
      <<"K", "i", "t", "t", "e", "n">> }

UploadedFiles == {"none", "receipt", "corrupt"}

Questions == {"Can we afford a new iPad?"}

\* Objects the response schema admits: amount, description, category and type
\* are required, date and is_subscription are optional.
RawOutputs ==
    { [amount |-> 100, description |-> "Sushi dinner", category |-> "Food",
       type |-> "Shared"],
      [date |-> "2024-05-01", amount |-> 50, description |-> "kitten litter",
       category |-> "Shopping", type |-> "Personal", is_subscription |-> FALSE],
      [date |-> "2024-05-02", amount |-> 15, description |-> "Netflix",
       category |-> "Bills", type |-> "Shared", is_subscription |-> TRUE],
      [amount |-> 12, description |-> "Cat food", category |-> "Pet Care",
       type |-> "Personal", is_subscription |-> FALSE] }

LongRawOutputs ==
    { [date |-> "2024-05-02", amount |-> 15, description |-> "Netflix",
       category |-> "Bills", type |-> "Shared", is_subscription |-> TRUE] }

(***************************************************************************)
(* Log Entry: src/app.py lines 64-120 and 160-174.                         *)
(***************************************************************************)

\* image_part = None; if uploaded_file: image_part = Image.open(uploaded_file)
ImagePart(up) == IF up = "none" THEN None ELSE [image |-> up]

\* the handler without its input validation
InputNeverMissing(text, image_part) == FALSE

\* not text_vibe and not image_part
InputMissing(text, image_part) == text = <<>> /\ image_part = None

\* contents: the text if any, the image if any, then the prompt (which embeds
\* the trip mode)
Contents(text, image_part, trip) ==
    (IF text # <<>> THEN << [text |-> text] >> ELSE <<>>)
    \o (IF image_part # None THEN << [image |-> image_part.image] >> ELSE <<>>)
    \o << [prompt |-> [trip_mode |-> trip]] >>

\* the except branch returning a fallback record instead of None
parse_receipt_or_text_fallback(text, image_part, trip, resp) ==
    [ request |-> [contents |-> Contents(text, image_part, trip)],
      error   |-> (resp = Raised),
      result  |-> IF resp = Raised
                  THEN [amount |-> 0, description |-> "Unknown",
                        category |-> "Other", type |-> "Personal"]
                  ELSE resp ]

\* resp is what generate_content followed by json.loads produces: a parsed
\* object, or Raised.  The except branch reports the error and returns None.
parse_receipt_or_text(text, image_part, trip, resp) ==
    [ request |-> [contents |-> Contents(text, image_part, trip)],
      error   |-> (resp = Raised),
      result  |-> IF resp = Raised THEN None ELSE resp ]

\* `if data:` -- None and the empty dict are falsy
Truthy(d) == d # None /\ DOMAIN d # {}

\* insert(0, data) instead of append(data)
PrependTx(txs, d) == <<d>> \o txs

\* transactions = [data] instead of append(data)
ResetTx(txs, d) == <<d>>

\* st.session_state.transactions.append(data)
AppendTx(txs, d) == Append(txs, d)

\* The input section of one run.  Only a run triggered by the Log Entry
\* button enters the handler.
InputSection(ev, text, trip, up, txs, resp) ==
    LET idle == [ transactions |-> txs, data |-> Unset, warning |-> FALSE,
                  ai_error |-> FALSE, toast |-> Unset,
                  extract_request |-> Unset, uncaught |-> "none" ]
    IN  IF ev # "log_entry" THEN idle
        ELSE IF up = "corrupt"
        THEN [idle EXCEPT !.uncaught = "Image.open: UnidentifiedImageError"]
        ELSE LET image_part == ImagePart(up) IN
             IF InputMissing(text, image_part)
             THEN [idle EXCEPT !.warning = TRUE]
             ELSE LET p == parse_receipt_or_text(text, image_part, trip, resp)
                      d == p.result
                  IN  [ transactions |-> IF Truthy(d) THEN AppendTx(txs, d) ELSE txs,
                        data |-> d,
                        warning |-> FALSE,
                        ai_error |-> p.error,
                        toast |-> IF Truthy(d)
                                  THEN [description |-> d.description, amount |-> d.amount]
                                  ELSE Unset,
                        extract_request |-> p.request,
                        uncaught |-> "none" ]

(***************************************************************************)
(* Dashboard: src/app.py lines 122-141 and 178-213.  df is the DataFrame   *)
(* built from the list of dicts: one row per record, one column per key    *)
(* that occurs in some record, NaN where a record lacks the key.           *)
(***************************************************************************)

\* df[col] raises KeyError unless some record carries the key
HasColumn(df, col) == \E i \in 1..Len(df) : Has(df[i], col)

RECURSIVE SumAmount(_)
SumAmount(df) ==
    IF df = <<>> THEN 0
    ELSE (IF Has(Head(df), "amount") THEN Head(df).amount ELSE 0) + SumAmount(Tail(df))

\* a running total that misses the newest record
total_spent_stale(df) == SumAmount(SubSeq(df, 1, Len(df) - 1))

\* df['amount'].sum()
total_spent(df) == SumAmount(df)

IsSubscription(r) == Has(r, "is_subscription") /\ r.is_subscription = TRUE

\* df[df['is_subscription'] == True]   (NaN == True is False)
subs(df) == SelectSeq(df, IsSubscription)

IsShared(r) == Has(r, "type") /\ r.type = "Shared"

\* len(df[df['type'] == 'Shared'])
SharedCount(df) == Len(SelectSeq(df, IsShared))

IsPersonal(r) == Has(r, "type") /\ r.type = "Personal"

\* dividing by the number of Personal records (a Shared:Personal ratio)
PersonalCount(df) == Len(SelectSeq(df, IsPersonal))

\* len(df), the divisor of the Shared Pulse
PulseDenominator(df) == Len(df)

RECURSIVE Descriptions(_)
Descriptions(df) ==
    IF df = <<>> THEN <<>> ELSE <<Head(df).description>> \o Descriptions(Tail(df))

\* the last n elements: s[-n:]
LastN(s, n) == SubSeq(s, IF Len(s) > n THEN Len(s) - n + 1 ELSE 1, Len(s))

\* vibeResp is what the generate_content call produces: a response, or Raised.
\* The call is not wrapped in a try.
get_vibe_check(txs, vibeResp) ==
    IF txs = <<>>
    THEN [request |-> Unset, raised |-> FALSE, text |-> "No vibes yet. Start spending!"]
    ELSE [request |-> [data |-> LastN(txs, VIBE_TAIL)],
          raised  |-> (vibeResp = Raised),
          text    |-> IF vibeResp = Raised THEN "" ELSE vibeResp.text]

\* if st.session_state.transactions:
DashboardGuard(txs) == txs # <<>>

\* The dashboard section of one run.
Dashboard(txs, vibeResp) ==
    LET skipped == [ metrics |-> Unset, vibe_request |-> Unset,
                     table_shown |-> FALSE, uncaught |-> "none" ]
        df == txs
    IN  IF ~DashboardGuard(txs) THEN skipped
        ELSE IF ~HasColumn(df, "amount") \/ ~HasColumn(df, "is_subscription")
        THEN [skipped EXCEPT !.uncaught = "dashboard: KeyError"]
        ELSE IF ~HasColumn(df, "type")
        THEN [skipped EXCEPT !.metrics = [total_spent |-> total_spent(df)],
                             !.uncaught = "dashboard: KeyError"]
        ELSE IF PulseDenominator(df) = 0
        THEN [skipped EXCEPT !.metrics = [total_spent |-> total_spent(df)],
                             !.uncaught = "dashboard: ZeroDivisionError"]
        ELSE
        LET m == [ total_spent |-> total_spent(df),
                   shared_pct  |-> [num |-> SharedCount(df) * 100,
                                    den |-> PulseDenominator(df)],
                   projected   |-> total_spent(df) * 30,
                   subs        |-> Descriptions(subs(df)) ]
            vibe == get_vibe_check(txs, vibeResp)
        IN  IF vibe.raised
            THEN [ metrics |-> m, vibe_request |-> vibe.request,
                   table_shown |-> FALSE, uncaught |-> "get_vibe_check: APIError" ]
            ELSE IF ~HasColumn(df, "date")
            THEN [ metrics |-> m, vibe_request |-> vibe.request,
                   table_shown |-> FALSE, uncaught |-> "dashboard: KeyError" ]
            ELSE [ metrics |-> m, vibe_request |-> vibe.request,
                   table_shown |-> TRUE, uncaught |-> "none" ]

(***************************************************************************)
(* Advisor: src/app.py lines 224-242.                                      *)
(***************************************************************************)

\* the advisor given the vibe check's tail
AdvisorContextTail(txs) == LastN(txs, VIBE_TAIL)

\* context = json.dumps(st.session_state.transactions)
AdvisorContext(txs) == txs

\* The advisor section of one run.  advResp is what the generate_content call
\* produces: a response, or Raised.  The call is not wrapped in a try.
Advisor(ev, msgs, txs, q, advResp) ==
    IF ev # "chat"
    THEN [messages |-> msgs, advisor_request |-> Unset, uncaught |-> "none"]
    ELSE LET asked == Append(msgs, [role |-> "user", content |-> q])
             req == [context |-> AdvisorContext(txs), question |-> q]
         IN  IF advResp = Raised
             THEN [messages |-> asked, advisor_request |-> req,
                   uncaught |-> "advisor: APIError"]
             ELSE [messages |-> Append(asked, [role |-> "assistant",
                                               content |-> advResp.text]),
                   advisor_request |-> req, uncaught |-> "none"]

(***************************************************************************)
(* One run of the script.                                                  *)
(***************************************************************************)

VibeResponses == { [text |-> "Sushi-heavy but fine."], Raised }

AdvisorResponses == { [text |-> "Maybe wait a month."], Raised }

\* The script from top to bottom: input section, dashboard section, advisor
\* section; a section runs only if no earlier one raised.
Script(ev, text, trip, up, txs, msgs, resp, vibeResp, q, advResp) ==
    LET s1 == InputSection(ev, text, trip, up, txs, resp)
        s2 == IF s1.uncaught = "none"
              THEN Dashboard(s1.transactions, vibeResp)
              ELSE [ metrics |-> Unset, vibe_request |-> Unset,
                     table_shown |-> FALSE, uncaught |-> s1.uncaught ]
        s3 == IF s2.uncaught = "none"
              THEN Advisor(ev, msgs, s1.transactions, q, advResp)
              ELSE [ messages |-> msgs, advisor_request |-> Unset,
                     uncaught |-> s2.uncaught ]
    IN  [ input |-> s1, dashboard |-> s2, advisor |-> s3 ]

\* One run: the session state and what the page shows after it.
Run(ev, text, trip, up, resp, vibeResp, q, advResp) ==
    \E r \in { Script(ev, text, trip, up, transactions, messages,
                      resp, vibeResp, q, advResp) } :
        /\ event' = ev
        /\ transactions' = r.input.transactions
        /\ data' = r.input.data
        /\ warning' = r.input.warning
        /\ ai_error' = r.input.ai_error
        /\ toast' = r.input.toast
        /\ extract_request' = r.input.extract_request
        /\ metrics' = r.dashboard.metrics
        /\ vibe_request' = r.dashboard.vibe_request
        /\ table_shown' = r.dashboard.table_shown
        /\ messages' = r.advisor.messages
        /\ advisor_request' = r.advisor.advisor_request
        /\ uncaught' = r.advisor.uncaught

\* session state setup on a fresh session, before any interaction
Init ==
    /\ text_vibe = <<>>
    /\ trip_mode = FALSE
    /\ uploaded_file = "none"
    /\ transactions = <<>>
    /\ messages = <<>>
    /\ event = "start"
    /\ data = Unset
    /\ warning = FALSE
    /\ ai_error = FALSE
    /\ toast = Unset
    /\ extract_request = Unset
    /\ metrics = Unset
    /\ vibe_request = Unset
    /\ table_shown = FALSE
    /\ advisor_request = Unset
    /\ uncaught = "none"

\* The user changes an input widget: the script re-runs with no button pressed.
SetInputs ==
    \E t \in TextInputs, trip \in BOOLEAN, up \in UploadedFiles :
        /\ <<t, trip, up>> # widgets
        /\ text_vibe' = t
        /\ trip_mode' = trip
        /\ uploaded_file' = up
        /\ \E vibeResp \in VibeResponses :
               Run("widget", t, trip, up, Raised, vibeResp, "", Raised)

\* The user presses Log Entry.
LogEntryFrom(raws, maxLen) ==
    /\ Len(transactions) < maxLen
    /\ UNCHANGED widgets
    /\ \E resp \in raws \cup {Raised}, vibeResp \in VibeResponses :
           Run("log_entry", text_vibe, trip_mode, uploaded_file, resp, vibeResp, "", Raised)

LogEntry == LogEntryFrom(RawOutputs, MaxLedger)

LogEntryLong == LogEntryFrom(LongRawOutputs, MaxLongLedger)

\* The user submits a question in the chat input.
AskAdvisor ==
    /\ Len(messages) + 2 <= MaxMessages
    /\ UNCHANGED widgets
    /\ \E q \in Questions, vibeResp \in VibeResponses, advResp \in AdvisorResponses :
           Run("chat", text_vibe, trip_mode, uploaded_file, Raised, vibeResp, q, advResp)

Next == SetInputs \/ LogEntry \/ AskAdvisor

Spec == Init /\ [][Next]_vars

\* The same program with one extraction output and a ledger that outgrows
\* the vibe check's tail.
NextLong == SetInputs \/ LogEntryLong \/ AskAdvisor

SpecLong == Init /\ [][NextLong]_vars

(***************************************************************************)
(* Properties.                                                             *)
(***************************************************************************)

IsPrefix(s, t) == Len(s) <= Len(t) /\ SubSeq(t, 1, Len(s)) = s

UpperAlpha == << "A", "B", "C", "D", "E", "F", "G", "H", "I", "J", "K", "L", "M",
                 "N", "O", "P", "Q", "R", "S", "T", "U", "V", "W", "X", "Y", "Z" >>

LowerAlpha == << "a", "b", "c", "d", "e", "f", "g", "h", "i", "j", "k", "l", "m",
                 "n", "o", "p", "q", "r", "s", "t", "u", "v", "w", "x", "y", "z" >>

LowerChar(c) ==
    IF \E i \in 1..Len(UpperAlpha) : UpperAlpha[i] = c
    THEN LowerAlpha[CHOOSE i \in 1..Len(UpperAlpha) : UpperAlpha[i] = c]
    ELSE c

Lower(text) == [i \in 1..Len(text) |-> LowerChar(text[i])]

Contains(text, word) ==
    \E i \in 1..(Len(text) - Len(word) + 1) : SubSeq(text, i, i + Len(word) - 1) = word

CatKeywords ==
    { <<"c", "a", "t">>, <<"k", "i", "t", "t", "e", "n">>, <<"l", "i", "t", "t", "e", "r">> }

HasCatKeyword(text) == \E w \in CatKeywords : Contains(Lower(text), w)

\* the current run made the extraction call and got a record back
ExtractionSucceeded == event = "log_entry" /\ data # Unset /\ data # None

\* the sum of the amounts, by position
RECURSIVE LedgerTotal(_, _)
LedgerTotal(txs, n) == IF n = 0 THEN 0 ELSE LedgerTotal(txs, n - 1) + txs[n].amount

ServiceErrors == {"parse_receipt_or_text: APIError", "get_vibe_check: APIError",
                  "advisor: APIError"}

\* C1: a run whose extraction fails (the call or the JSON parsing raised, the
\* AI Error is shown) leaves the ledger exactly as it was.
C1_FailedExtractionLeavesLedger ==
    [][ai_error' => transactions' = transactions]_vars

C1_Witness == ai_error /\ data = None /\ Len(transactions) >= 1

\* C2: after a Log Entry run whose extraction succeeds with record r, the
\* ledger is one longer than before and r is its last element.
C2_AppendThenRead ==
    [][ExtractionSucceeded' =>
          /\ Len(transactions') = Len(transactions) + 1
          /\ transactions'[Len(transactions')] = data']_vars

C2_Witness ==
    /\ ExtractionSucceeded
    /\ Len(transactions) = 2
    /\ transactions[1] # transactions[2]
    /\ transactions[2] = data

\* C3: the ledger is append-only: every run, whatever triggered it, leaves the
\* earlier ledger as a prefix of the later one.
C3_AppendOnly ==
    [][IsPrefix(transactions, transactions')]_vars

C3_Witness ==
    /\ Len(transactions) = 2
    /\ transactions[1] # transactions[2]
    /\ messages # <<>>
    /\ Has(metrics, "total_spent")

\* C4: no failure of an external-service call (extraction, vibe check,
\* advisor) leaves the run that made the call as an uncaught exception.
C4_ServiceFailuresCaught == uncaught \notin ServiceErrors

C6_IsSubscriptionDefaulted ==
    \A i \in 1..Len(transactions) :
        /\ Has(transactions[i], "is_subscription")
        /\ transactions[i].is_subscription \in BOOLEAN

\* C7: a record logged from an input text that contains "cat", "kitten" or
\* "litter" (case-insensitive) has category Pet Care whatever the model returned.
C7_CatTextForcesPetCare ==
    (ExtractionSucceeded /\ toast # Unset /\ HasCatKeyword(text_vibe)) =>
        transactions[Len(transactions)].category = "Pet Care"

\* C8: a rendered Total Spent equals the sum of amount over all records of
\* the ledger as it is in that run.
C8_TotalSpentIsLedgerSum ==
    Has(metrics, "total_spent") =>
        metrics.total_spent = LedgerTotal(transactions, Len(transactions))

C8_Witness ==
    /\ event = "log_entry"
    /\ Has(metrics, "total_spent")
    /\ metrics.total_spent = 150
    /\ Len(transactions) = 2

\* C9: an Ask the Advisor run leaves the ledger (and the widgets) as they
\* were, only extends the chat transcript, and whenever it makes the advisor
\* call, succeed or fail, the prompt carries the full current ledger.
C9_AdvisorLeavesLedger ==
    [][event' = "chat" =>
          /\ transactions' = transactions
          /\ widgets' = widgets
          /\ IsPrefix(messages, messages')
          /\ advisor_request' # Unset =>
                /\ advisor_request'.context = transactions
                /\ Len(messages') > Len(messages)]_vars

C9_Witness ==
    /\ event = "chat"
    /\ advisor_request # Unset
    /\ uncaught = "advisor: APIError"
    /\ Len(transactions) > VIBE_TAIL
    /\ vibe_request # Unset
    /\ vibe_request.data # transactions

\* C10: the extraction call is made only with a text or an image; a Log Entry
\* run with neither makes no call, shows the warning and leaves the ledger.
C10_NoCallWithoutInput ==
    [][/\ extract_request' # Unset =>
              ~(text_vibe' = <<>> /\ uploaded_file' = "none")
       /\ (event' = "log_entry" /\ text_vibe' = <<>> /\ uploaded_file' = "none") =>
              /\ warning'
              /\ extract_request' = Unset
              /\ transactions' = transactions]_vars

C10_Witness ==
    /\ event = "log_entry"
    /\ warning
    /\ text_vibe = <<>>
    /\ uploaded_file = "none"
    /\ extract_request = Unset
    /\ Len(transactions) >= 1

====
